---- MODULE Spec2Model ----
(***************************************************************************)
(* Kuramoto model with three oscillators (kuramoto.py): the RK4 phase      *)
(* update, the pairwise circular distances, the rolling window of 500      *)
(* maximal distances and the synchronization flag / timestamp kept in      *)
(* Settings.                                                               *)
(*                                                                         *)
(* Reals are fixed-point integers in units of 1/SCALE: phases in 1e-4 rad, *)
(* K, dt and times in 1e-4, distances in 1e-4.  math.sin is Bhaskara's     *)
(* rational approximation evaluated in integers.                           *)
(*                                                                         *)
(* The widgets are the environment: a slider drag puts the slider anywhere *)
(* in its range, a clicked button moves it by one step through setValue,   *)
(* which does not clamp.  Rendering and the QUIT event are left out.       *)
(***************************************************************************)
EXTENDS Integers, Sequences, FiniteSets, TLC

SCALE == 10 * 1000

\* ---------------------------------------------------------------- bounds
\* iterations of the main loop explored with unrestricted collaborator input
ShortTicks == 4

\* iterations explored in all
MaxTicks == 508

\* the collaborator acts freely during the first EarlyTicks iterations
EarlyTicks == 3

\* and at most MaxLate times once the window holds only real records
MaxLate == 2

\* iterations in which the collaborator rewinds the clock (SpecRewind)
RewindTicks == 6

\* ------------------------------------------------------- integer helpers
Abs(x) == IF x < 0 THEN -x ELSE x

Min(a, b) == IF a < b THEN a ELSE b

\* a / b rounded to the nearest integer (b > 0), ties upward
RDiv(a, b) == (2 * a + b) \div (2 * b)

\* math.pi and 2 * math.pi in 1e-4 rad
Pi == 31416

TwoPi == 62832

\* a remainder that keeps the sign of the dividend (C's fmod)
WrapTruncated(x) == IF x < 0 THEN -((-x) % TwoPi) ELSE x % TwoPi

\* x % (2 * math.pi): Python's modulo has the sign of the divisor
Wrap(x) == x % TwoPi

\* Bhaskara's approximation of sin on [0, pi], result in 1e-4:
\*   sin x ~ 16 x (pi - x) / (5 pi^2 - 4 x (pi - x))
SinHalf(x) ==
    LET u == (x * (Pi - x)) \div 1000
        q == (4934825 - 4 * u) \div 100
    IN  (1600 * u) \div q

\* math.sin of an arbitrary angle (1e-4 rad), result in 1e-4
Sin(x) ==
    LET r == x % TwoPi
    IN  IF r <= Pi THEN SinHalf(r) ELSE -SinHalf(r - Pi)

\* ------------------------------------------------------ program constants
\* rolling-window length: Settings.max_distance holds 500 records
W == 500

\* factor of Settings.dt subtracted from dt_counter for the timestamp
SyncBackTicks == 350

\* threshold of the stability test, 0.001 in 1e-4
Epsilon == 10

\* default radius r of getDistance
Radius == 200

\* operator1..operator3 frequencies 1, 0.5, 0.25 in 1e-4
freq == <<10000, 5000, 2500>>

\* initial phases 0, 5, 10 (rad), assigned unwrapped
InitPhase == <<0, 50000, 100000>>

Ops == {1, 2, 3}

\* ------------------------------------------------------------------ rk4
\* dPhase1/2/3 closed over the stored phases ph and the snapshot Kc
dPhase(i, ph, Kc, y) ==
    LET others == Ops \ {i}
        a == CHOOSE j \in others : \A k \in others : j <= k
        b == CHOOSE j \in others : j # a
    IN  freq[i] + RDiv(Kc * (Sin(ph[a] - y) + Sin(ph[b] - y)), SCALE)

\* rk4(deriv, y, dt): the increment, not the new value
rk4(i, ph, Kc, y, dtc) ==
    LET k1 == RDiv(dtc * dPhase(i, ph, Kc, y), SCALE)
        k2 == RDiv(dtc * dPhase(i, ph, Kc, y + RDiv(k1, 2)), SCALE)
        k3 == RDiv(dtc * dPhase(i, ph, Kc, y + RDiv(k2, 2)), SCALE)
        k4 == RDiv(dtc * dPhase(i, ph, Kc, y + k3), SCALE)
    IN  RDiv(k1 + 2 * k2 + 2 * k3 + k4, 6)

\* each increment computed from phases already advanced by the earlier ones
PhasesSeenInPlace(i, ph, Kc, dtc) ==
    IF i = 1 THEN ph
    ELSE IF i = 2 THEN <<ph[1] + rk4(1, ph, Kc, ph[1], dtc), ph[2], ph[3]>>
    ELSE LET p1 == ph[1] + rk4(1, ph, Kc, ph[1], dtc)
             q  == <<p1, ph[2], ph[3]>>
         IN  <<p1, ph[2] + rk4(2, q, Kc, ph[2], dtc), ph[3]>>

\* the phases update() reads when it computes the increment of operator i:
\* all three rk4 calls precede the first assignment
PhasesSeenBy(i, ph, Kc, dtc) == ph

\* lines 88-93: operatorN.phase += rk4opN, before the wrap
Unwrapped(ph, Kc, dtc) ==
    LET rk4op1 == rk4(1, PhasesSeenBy(1, ph, Kc, dtc), Kc, ph[1], dtc)
        rk4op2 == rk4(2, PhasesSeenBy(2, ph, Kc, dtc), Kc, ph[2], dtc)
        rk4op3 == rk4(3, PhasesSeenBy(3, ph, Kc, dtc), Kc, ph[3], dtc)
    IN  <<ph[1] + rk4op1, ph[2] + rk4op2, ph[3] + rk4op3>>

\* lines 96-98: operatorN.phase %= 2 * math.pi
WrapAll(raw) == <<Wrap(raw[1]), Wrap(raw[2]), Wrap(raw[3])>>

\* update() with the snapshot Kc, dtc of Settings.K, Settings.dt
update(ph, Kc, dtc) == WrapAll(Unwrapped(ph, Kc, dtc))

\* ------------------------------------------------------------- detector
getDistance(ph, a, b) ==
    LET angular_distance == Abs(ph[a] - ph[b])
    IN  Radius * Min(angular_distance, TwoPi - angular_distance)

\* itertools.combinations([operator1, operator2, operator3], 2)
Pairs == << <<1, 2>>, <<1, 3>>, <<2, 3>> >>

\* the scan for the maximal pair: a later pair replaces the leader only when
\* strictly farther apart
RECURSIVE MaxPairFrom(_, _, _)
MaxPairFrom(ph, n, best) ==
    IF n > Len(Pairs) THEN best
    ELSE LET p == Pairs[n]
             d == getDistance(ph, p[1], p[2])
         IN  MaxPairFrom(ph, n + 1,
                         IF d > best[1] THEN <<d, p[1], p[2]>> ELSE best)

\* the record appended to Settings.max_distance
DistanceRecord(ph) ==
    LET m == MaxPairFrom(ph, 1, <<getDistance(ph, 1, 2), 1, 2>>)
        theOtherOperator == 1 + 2 + 3 - (m[2] + m[3])
    IN  <<m[1], m[2], m[3],
          getDistance(ph, m[2], theOtherOperator),
          getDistance(ph, m[3], theOtherOperator)>>

\* Settings.max_distance = Settings.max_distance[1:]; append(record)
Push(md, rec) == Append(Tail(md), rec)

\* the scan with the operands of the difference swapped
FlatSwapped(md) == \A i \in 2..W : md[i - 1][1] - md[i][1] <= Epsilon

\* the stability scan: no forward difference above the threshold
Flat(md) == \A i \in 2..W : md[i][1] - md[i - 1][1] <= Epsilon

\* ---------------------------------------------------------------- state
VARIABLES
    phase,          \* operator1.phase, operator2.phase, operator3.phase
    K,              \* Settings.K
    dt,             \* Settings.dt
    dt_counter,     \* Settings.dt_counter
    syncTrue,       \* Settings.syncTrue
    syncTime,       \* Settings.syncTime
    showSync,       \* Settings.showSync
    max_distance,   \* Settings.max_distance
    k_slider,       \* k_slider.getValue()
    dt_slider,      \* dt_slider.getValue()
    clicked,        \* the button whose .clicked is set, or "none"
    ticks,          \* iterations of the main loop completed
    late,           \* iterations after warm-up in which the collaborator acted
    log             \* what the last iteration read, used and decided

vars == <<phase, K, dt, dt_counter, syncTrue, syncTime, showSync, max_distance,
          k_slider, dt_slider, clicked, ticks, late, log>>

\* round(x, 3) of a value in 1e-4: nearest multiple of 0.001, ties to even
Round3(x) ==
    LET lo == x \div 10
        r == x % 10
    IN  10 * (IF r < 5 THEN lo
              ELSE IF r > 5 THEN lo + 1
              ELSE IF lo % 2 = 0 THEN lo ELSE lo + 1)

Buttons == {"k_plus", "k_minus", "dt_plus", "dt_minus"}

\* lines 244-249: a clicked K button moves k_slider by 0.0001
KAfterButtons(v, c) ==
    IF c = "k_plus" THEN v + 1 ELSE IF c = "k_minus" THEN v - 1 ELSE v

\* lines 250-255: a clicked dt button moves dt_slider by 0.001
DtAfterButtons(v, c) ==
    IF c = "dt_plus" THEN v + 10 ELSE IF c = "dt_minus" THEN v - 10 ELSE v

\* a reset that clears the flag and keeps the timestamp
ResetKeepsTime(st, isChanged) ==
    IF isChanged THEN <<FALSE, st[2], FALSE>> ELSE st

\* lines 265-268 and 273-276: what a changed K or dt does to
\* <<syncTrue, syncTime, showSync>>
ResetOnChange(st, isChanged) ==
    IF isChanged THEN <<FALSE, 0, FALSE>> ELSE st

\* line 279: Settings.dt_counter += dt_slider.getValue()
AdvanceClock(counter, sliderNow) == counter + sliderNow

\* the timestamp back-dated by the whole window
TimestampByWindow(old, counter, dtNow) ==
    IF old = 0 THEN counter - W * dtNow ELSE old

\* lines 315-318: the timestamp kept or computed when the window is flat
Timestamp(old, counter, dtNow) ==
    IF old = 0 THEN counter - SyncBackTicks * dtNow ELSE old

\* lines 307-318: the stability test on the pushed window and the update of
\* <<syncTrue, syncTime, showSync>>; the assignments of lines 311-312 bind
\* module-level names syncTrue, syncTime and leave Settings alone
Detect(st, md, counter, dtNow) ==
    IF Flat(md)
    THEN <<TRUE, Timestamp(st[2], counter, dtNow), TRUE>>
    ELSE <<st[1], st[2], FALSE>>

\* Settings.max_distance as constructed: 500 records [0, 1, 2, 0, 0]
Placeholder == <<0, 1, 2, 0, 0>>

Init ==
    /\ phase = InitPhase
    /\ K = 0
    /\ dt = 1000
    /\ dt_counter = 0
    /\ syncTrue = FALSE
    /\ syncTime = 0
    /\ showSync = TRUE
    /\ max_distance = [i \in 1..W |-> Placeholder]
    /\ k_slider = 2000
    /\ dt_slider = 100
    /\ clicked = "none"
    /\ ticks = 0
    /\ late = 0
    /\ log = [usedK |-> 0, usedDt |-> 0, before |-> InitPhase, raw |-> InitPhase, changed |-> FALSE,
              integrated |-> 0, entered |-> FALSE, calm |-> 0,
              wasSync |-> FALSE, wasTime |-> 0]

\* One iteration of the main loop (lines 236-339).  ev is what
\* pygame_widgets.update finds at the end of the iteration: nothing, a button
\* pressed, or a slider dragged to ev.v.
Loop(ev) ==
    /\ ticks < MaxTicks
    /\ \E raw \in {Unwrapped(phase, K, dt)} :
       \E md \in {Push(max_distance, DistanceRecord(WrapAll(raw)))} :
         LET ks  == KAfterButtons(k_slider, clicked)
             ds  == DtAfterButtons(dt_slider, clicked)
             K_val  == Round3(ks)
             dt_val == Round3(ds)
             isChanged == K_val # K \/ dt_val # dt
             st1 == ResetOnChange(ResetOnChange(<<syncTrue, syncTime, showSync>>,
                                                K_val # K), dt_val # dt)
             counter == AdvanceClock(dt_counter, ds)
         IN  \E st2 \in {Detect(st1, md, counter, dt_val)} :
             /\ phase' = WrapAll(raw)
             /\ K' = K_val
             /\ dt' = dt_val
             /\ dt_counter' = counter
             /\ max_distance' = md
             /\ syncTrue' = st2[1]
             /\ syncTime' = st2[2]
             /\ showSync' = st2[3]
             /\ clicked' = IF ev.kind \in Buttons THEN ev.kind ELSE "none"
             /\ k_slider' = IF ev.kind = "k_drag" THEN ev.v ELSE ks
             /\ dt_slider' = IF ev.kind = "dt_drag" THEN ev.v ELSE ds
             /\ ticks' = ticks + 1
             /\ late' = late + (IF ev.kind # "none" /\ ticks >= W THEN 1 ELSE 0)
             /\ log' = [usedK |-> K, usedDt |-> dt, before |-> phase, raw |-> raw, changed |-> isChanged,
                        integrated |-> log.integrated + dt,
                        entered |-> st2[3] /\ st1[2] = 0,
                        calm |-> IF isChanged THEN 0 ELSE log.calm + 1,
                        wasSync |-> syncTrue, wasTime |-> syncTime]

\* ------------------------------------------------ the collaborator's input
Quiet == Loop([kind |-> "none", v |-> 0])

Press(b) == Loop([kind |-> b, v |-> 0])

DragK(v) == Loop([kind |-> "k_drag", v |-> v])

DragDt(v) == Loop([kind |-> "dt_drag", v |-> v])

\* slider positions the collaborator drags to (k_slider 0..2, dt_slider 0..1)
KDrags == {0, 20000}

DtDrags == {0, 10, 10000}

\* unrestricted input over a short horizon
Short == ticks < ShortTicks

Next ==
    \/ Short /\ Quiet
    \/ \E b \in Buttons : Short /\ Press(b)
    \/ \E v \in KDrags : Short /\ DragK(v)
    \/ \E v \in DtDrags : Short /\ DragDt(v)

Spec == Init /\ [][Next]_vars

\* the whole warm-up and the first iterations after it: the collaborator sets
\* the sliders during the first EarlyTicks iterations, leaves them alone while
\* the window fills, and acts at most MaxLate times afterwards
Early == ticks < EarlyTicks

Late == ticks >= W /\ late < MaxLate

NextDeep ==
    \/ Quiet
    \/ Early /\ DragK(20000)
    \/ Early /\ DragDt(3290)
    \/ Early /\ DragDt(0)
    \/ Late /\ Press("dt_plus")
    \/ Late /\ DragK(0)

SpecDeep == Init /\ [][NextDeep]_vars

\* the collaborator rewinds the clock: during the first RewindTicks iterations
\* it drags dt_slider to 0 or holds the dt "-" button, then leaves the controls
Rewinding == ticks < RewindTicks

NextRewind ==
    \/ Rewinding /\ DragDt(0)
    \/ Rewinding /\ Press("dt_minus")
    \/ ~Rewinding /\ Quiet

SpecRewind == Init /\ [][NextRewind]_vars

\* ----------------------------------------------------------------- claims
\* line 320: the "Synchronized at t=~" readout is rendered
ReadoutShown == syncTime > 0

\* every record of the window carries the same maximal distance
AllEqual(md) == \A i \in 1..W : md[i][1] = md[W][1]

\* C1: a tick on which K or dt differs from the stored value ends
\* Unsynchronized with the timestamp unset, whatever the window holds.
C1_ChangeEndsUnsynchronized ==
    (ticks >= 1 /\ log.changed) => (~syncTrue /\ syncTime = 0)

\* C2: at the end of every tick, an Unsynchronized detector has no timestamp
\* set and shows no "Synchronized at" readout.
C2_NoTimestampWhileUnsynchronized ==
    ~syncTrue => (syncTime = 0 /\ ~ReadoutShown)

\* the detector dropped out of Synchronized with a timestamp set
C2_Witness == ticks >= 1 /\ ~syncTrue /\ log.wasSync /\ log.wasTime # 0

\* C3 as stated: on entering Synchronized with no timestamp set, the
\* timestamp is dt_counter - W * dt with W the window length 500.
C3_BackdatedByWindow ==
    log.entered => syncTime = dt_counter - W * dt

\* C3 amended: on entering Synchronized with no timestamp set, the timestamp
\* is dt_counter - 350 * dt (dt_counter after this tick's increment).
C3_BackdatedBy350 ==
    log.entered => syncTime = dt_counter - SyncBackTicks * dt

\* an entry with a time step for which 350 and 500 steps differ
C3_Witness == log.entered /\ syncTrue /\ dt # 0 /\ ticks > W

C6_SynchronizedIffFlat ==
    (ticks >= 1 /\ ~log.changed) => (syncTrue <=> Flat(max_distance))

\* C7: across two consecutive ticks that both end Synchronized, with no K/dt
\* change on the second, the timestamp keeps its value.
C7_TimestampRetained ==
    (ticks >= 2 /\ log.wasSync /\ syncTrue /\ ~log.changed)
        => syncTime = log.wasTime

\* C8: on ticks 1..499 the stability test does not find the window flat, the
\* detector is not Synchronized and no timestamp is set.
C8_WarmUpNeverFlat ==
    (1 <= ticks /\ ticks < W) => (~showSync /\ ~syncTrue /\ syncTime = 0)

\* the last tick of the warm-up: one placeholder is left in the window, and
\* the records of ticks 3..499 alone would pass the stability test
C8_Witness ==
    /\ ticks = W - 1
    /\ max_distance[1] = Placeholder
    /\ \A i \in 4..W : max_distance[i][1] - max_distance[i - 1][1] <= Epsilon

\* C9: dt_counter is the sum of the time steps update() integrated with.
C9_ClockMatchesIntegration == dt_counter = log.integrated

\* C10: every tick advances each phase by the RK4 increment computed from the
\* phases, K and dt stored when the tick began.
C10_SnapshotUpdate ==
    [][\A i \in Ops :
          phase'[i] = Wrap(phase[i] + rk4(i, phase, K, phase[i], dt))]_vars

\* a tick on which increments computed from phases written earlier in the
\* same tick would have differed from the ones update() computed
C10_Witness ==
    /\ ticks >= 2
    /\ \E i \in Ops :
          log.raw[i] # log.before[i]
                       + rk4(i, PhasesSeenInPlace(i, log.before, log.usedK,
                                                  log.usedDt),
                             log.usedK, log.before[i], log.usedDt)

====
